---- MODULE Spec2Model ----
(***************************************************************************)
(* Model of the rustfmt rule of tree-sitter-lint-plugin-rustfmt            *)
(* (src/lib.rs): one invocation of run_rustfmt on a source_file node.      *)
(*                                                                         *)
(* A document is a sequence of one-character strings (its bytes).  The     *)
(* external formatter is an oracle: every value the code reads from it     *)
(* (spawn result, write result, exit status, decoded JSON) is chosen from  *)
(* a small set.  The mismatches it reports refer to lines of the document  *)
(* it was streamed; rope lines are broken at "\n" only.                    *)
(***************************************************************************)
EXTENDS Integers, Sequences, FiniteSets, TLC

VARIABLES
    run_kind,               \* context.file_run_context.run_kind (with its payload)
    file_contents,          \* context.file_run_context.file_contents (RopeOrSlice)
    pc,                     \* position of run_rustfmt
    line_ranges,            \* Option<Vec<Range<usize>>>
    args,                   \* argument vector given to the subprocess
    command,                \* the child process: "none", "running", "waited"
    stdin,                  \* the child's input pipe: "none", "open", "closed"
    stdin_written,          \* bytes written to the child's input so far
    output,                 \* what wait_with_output returned
    file_with_mismatches,   \* the accepted result record
    mismatches,             \* mismatches the for loop has not reached yet
    violations,             \* violations handed to context.report, in order
    eprinted                \* diagnostics printed with eprintln!

vars == <<run_kind, file_contents, pc, line_ranges, args, command, stdin,
          stdin_written, output, file_with_mismatches, mismatches, violations,
          eprinted>>

(* ------------------------------ bounds -------------------------------- *)

\* longest generated document, in bytes
MaxLen == 3
\* largest row number carried by the host's run-kind payload
MaxRow == 1

(* --------------------------- documents -------------------------------- *)

NL == "\n"

\* Option<T>: None, or Some(x)
None == <<>>

Some(x) == <<x>>

IsSome(option) == option # <<>>

Unwrap(option) == option[1]

Chars == {"a", NL}

\* tests::test_basic, valid case
TestValidCode == <<"f", "n", " ", "w", "h", "e", "e", "(", ")", " ", "{", "}", NL>>

\* tests::test_basic, invalid case: code and output
TestInvalidCode == <<"f", "n", " ", "w", "h", "e", "e", "(", " ", ")", " ", "{", "}", NL>>

TestOutput == TestValidCode

Texts == (UNION {[1..n -> Chars] : n \in 0..MaxLen}) \cup {TestValidCode, TestInvalidCode}

Slice(text, from, to) == SubSeq(text, from + 1, to)

(* ------------------- lines of a document (reference) ------------------- *)

\* number of line terminators in text
NumNewlines(text) == Cardinality({i \in 1..Len(text) : text[i] = NL})

\* contents of the lines of text, terminators removed; the last line is what
\* follows the last terminator (possibly empty)
RECURSIVE SplitLines(_)
SplitLines(text) ==
    IF \A i \in 1..Len(text) : text[i] # NL
    THEN <<text>>
    ELSE LET k == CHOOSE i \in 1..Len(text) :
                      text[i] = NL /\ \A j \in 1..(i - 1) : text[j] # NL
         IN <<SubSeq(text, 1, k - 1)>> \o SplitLines(SubSeq(text, k + 1, Len(text)))

\* lines a..b (1-based), each followed by a line terminator
RECURSIVE LinesWithTerminator(_, _, _)
LinesWithTerminator(text, a, b) ==
    IF a > b THEN <<>>
    ELSE SplitLines(text)[a] \o <<NL>> \o LinesWithTerminator(text, a + 1, b)

\* lines a..b (1-based) as they stand in the document: the last line of the
\* document has no terminator
RECURSIVE LinesAsInDocument(_, _, _)
LinesAsInDocument(text, a, b) ==
    IF a > b THEN <<>>
    ELSE SplitLines(text)[a]
         \o (IF a <= NumNewlines(text) THEN <<NL>> ELSE <<>>)
         \o LinesAsInDocument(text, a + 1, b)

\* s is the byte offset at which 0-based row begins
IsStartOfRow(text, s, row) ==
    /\ s \in 0..Len(text)
    /\ s = 0 \/ text[s] = NL
    /\ Cardinality({i \in 1..s : text[i] = NL}) = row

(* ------------------- host context: run kinds -------------------------- *)

Rows == 0..MaxRow

\* an applied edit, reduced to the rows of its InputEdit: start_position,
\* old_end_position and new_end_position
InputEdits ==
    {e \in [start_row : Rows, old_end_row : Rows, new_end_row : Rows] :
        e.start_row <= e.old_end_row /\ e.start_row <= e.new_end_row}

\* a violation of an earlier pass, reduced to the rows its range spans in the
\* document it was reported on
PriorViolations ==
    {v \in [start_row : Rows, end_row : Rows] : v.start_row <= v.end_row}

AtMostOne(S) == {<<>>} \cup {<<x>> : x \in S}

Option(S) == {None} \cup {Some(x) : x \in S}

RunKinds ==
    [kind : {"NonfixingForSlice", "Unscoped"},
     edits_since_last_fixing_run : {None},
     last_fixing_run_violations : {None},
     all_violations_from_last_pass : {<<>>},
     all_fixes_from_last_pass : {<<>>}]
    \cup
    [kind : {"FixingForSliceInitial"},
     edits_since_last_fixing_run : Option(AtMostOne(InputEdits)),
     last_fixing_run_violations : Option(AtMostOne(PriorViolations)),
     all_violations_from_last_pass : {<<>>},
     all_fixes_from_last_pass : {<<>>}]
    \cup
    [kind : {"FixingForSliceFixingLoop"},
     edits_since_last_fixing_run : {None},
     last_fixing_run_violations : {None},
     all_violations_from_last_pass : AtMostOne(PriorViolations),
     all_fixes_from_last_pass : AtMostOne(InputEdits)]

\* the row of the edited document that an old row lands on: rows above the
\* edit stay, rows below it move by the lines the edit added or removed, rows
\* inside it land on the edit's new first (or last) row
RECURSIVE NewRow(_, _, _)
NewRow(edits, row, is_end) ==
    IF edits = <<>> THEN row
    ELSE LET e == Head(edits)
             moved == IF row < e.start_row THEN row
                      ELSE IF row > e.old_end_row
                           THEN row + e.new_end_row - e.old_end_row
                           ELSE IF is_end THEN e.new_end_row ELSE e.start_row
         IN NewRow(Tail(edits), moved, is_end)

\* edits.get_new_line_range(range): the line range the old range covers now
GetNewLineRange(edits, violation) ==
    <<NewRow(edits, violation.start_row, FALSE),
      NewRow(edits, violation.end_row, TRUE) + 1>>

\* edits.get_new_ranges(): the rewritten regions, in the new document
GetNewRanges(edits) ==
    [i \in 1..Len(edits) |->
        [start_point_row |-> edits[i].start_row,
         end_point_row |-> edits[i].new_end_row]]

\* the rows start_point.row..end_point.row + 1 of a new range
NewRangeRows(range) == <<range.start_point_row, range.end_point_row + 1>>

\* the rows start_position.row..new_end_position.row + 1 of an applied edit
InputEditRows(input_edit) == <<input_edit.start_row, input_edit.new_end_row + 1>>

NeverSkip(kind) == FALSE

IsSkip(kind) == kind.kind = "NonfixingForSlice"

HasFullHistory(kind) ==
    /\ IsSome(kind.edits_since_last_fixing_run)
    /\ IsSome(kind.last_fixing_run_violations)

InitialViolationRange(edits, violation) == GetNewLineRange(edits, violation)

FixingLoopViolationRange(violation) ==
    <<violation.start_row, violation.end_row + 1>>

LineRangesWithoutViolationsGuard(kind) ==
    IF kind.kind = "FixingForSliceInitial" /\ IsSome(kind.edits_since_last_fixing_run)
    THEN LET edits == Unwrap(kind.edits_since_last_fixing_run)
             prior == IF IsSome(kind.last_fixing_run_violations)
                      THEN Unwrap(kind.last_fixing_run_violations) ELSE <<>>
         IN Some([i \in 1..Len(edits) |-> NewRangeRows(GetNewRanges(edits)[i])]
                 \o [i \in 1..Len(prior) |-> InitialViolationRange(edits, prior[i])])
    ELSE IF kind.kind = "FixingForSliceFixingLoop"
    THEN Some([i \in 1..Len(kind.all_violations_from_last_pass) |->
                   FixingLoopViolationRange(kind.all_violations_from_last_pass[i])]
              \o [i \in 1..Len(kind.all_fixes_from_last_pass) |->
                     InputEditRows(kind.all_fixes_from_last_pass[i])])
    ELSE None

\* the match on run_kind that computes line_ranges
LineRanges(kind) ==
    IF kind.kind = "FixingForSliceInitial" /\ HasFullHistory(kind)
    THEN LET edits == Unwrap(kind.edits_since_last_fixing_run)
             prior == Unwrap(kind.last_fixing_run_violations)
         IN Some([i \in 1..Len(edits) |-> NewRangeRows(GetNewRanges(edits)[i])]
                 \o [i \in 1..Len(prior) |-> InitialViolationRange(edits, prior[i])])
    ELSE IF kind.kind = "FixingForSliceFixingLoop"
    THEN Some([i \in 1..Len(kind.all_violations_from_last_pass) |->
                   FixingLoopViolationRange(kind.all_violations_from_last_pass[i])]
              \o [i \in 1..Len(kind.all_fixes_from_last_pass) |->
                     InputEditRows(kind.all_fixes_from_last_pass[i])])
    ELSE None

\* the file name given in the --file-lines argument
ScopeFileName == "stdin"

WrongExpectedFileName == "stdin"

\* the file name the result record must carry
ExpectedFileName == "<stdin>"

FileLineRangeNew(file, range) == [file |-> file, range |-> range]

BaseArgs == <<"+nightly", "--unstable-features", "--emit", "json">>

\* the argument vector: its strings, and the list that serde_json serializes
\* into the value of --file-lines
BuildArgs(ranges) ==
    [flags |-> BaseArgs \o (IF IsSome(ranges) THEN <<"--file-lines">> ELSE <<>>),
     file_lines |-> IF IsSome(ranges)
                    THEN [i \in 1..Len(Unwrap(ranges)) |->
                             FileLineRangeNew(ScopeFileName, Unwrap(ranges)[i])]
                    ELSE <<>>]

(* ------------------------- range localizer ---------------------------- *)

NewlineOffsetsOneBased(slice) ==
    SelectSeq([i \in 1..Len(slice) |-> i], LAMBDA index : slice[index] = NL)

\* get_newline_offsets: the 0-based offsets of the "\n" bytes, ascending
NewlineOffsets(slice) ==
    SelectSeq([i \in 1..Len(slice) |-> i - 1], LAMBDA index : slice[index + 1] = NL)

AtNewline(slice, newline_offsets, i) ==
    IF i < Len(newline_offsets) THEN newline_offsets[i + 1] ELSE Len(slice)

\* newline_offsets.get(i).map_or(slice.len(), |o| o + 1)
OnePastNewline(slice, newline_offsets, i) ==
    IF i < Len(newline_offsets) THEN newline_offsets[i + 1] + 1 ELSE Len(slice)

Point(row, column) == [row |-> row, column |-> column]

\* Rope::len_lines
LenLines(rope) == NumNewlines(rope) + 1

\* Rope::line_to_byte panics beyond one past the last line
LineToBytePanics(rope, line_idx) == line_idx > LenLines(rope)

\* Rope::line_to_byte: the offset of the first byte of a 0-based line; one
\* past the last line gives the length
LineToByte(rope, line_idx) ==
    IF line_idx >= LenLines(rope) THEN Len(rope)
    ELSE IF line_idx = 0 THEN 0
    ELSE CHOOSE p \in 1..Len(rope) :
             /\ rope[p] = NL
             /\ Cardinality({i \in 1..p : rope[i] = NL}) = line_idx

RopeEndByteOfLastLine(rope, mismatch, start_byte) ==
    IF mismatch.original = <<>> THEN start_byte
    ELSE LineToByte(rope, mismatch.original_end_line - 1)

RopeEndByte(rope, mismatch, start_byte) ==
    IF mismatch.original = <<>> THEN start_byte
    ELSE LineToByte(rope, mismatch.original_end_line)

\* the Rope arm of the match on file_contents
RopeRange(rope, mismatch) ==
    LET start_byte == LineToByte(rope, mismatch.original_begin_line - 1)
        start_point == Point(mismatch.original_begin_line - 1, 0)
        end_byte == RopeEndByte(rope, mismatch, start_byte)
    IN [start_byte |-> start_byte,
        end_byte |-> end_byte,
        start_point |-> start_point,
        end_point |-> IF mismatch.original = <<>> THEN start_point
                      ELSE Point(mismatch.original_end_line, 0)]

RopeRangePanics(rope, mismatch) ==
    \/ LineToBytePanics(rope, mismatch.original_begin_line - 1)
    \/ mismatch.original # <<>> /\ LineToBytePanics(rope, mismatch.original_end_line)

SliceStartByteOfNextLine(slice, newline_offsets, mismatch) ==
    IF mismatch.original_begin_line >= 2
    THEN OnePastNewline(slice, newline_offsets, mismatch.original_begin_line - 1)
    ELSE 0

SliceStartByte(slice, newline_offsets, mismatch) ==
    IF mismatch.original_begin_line >= 2
    THEN OnePastNewline(slice, newline_offsets, mismatch.original_begin_line - 2)
    ELSE 0

SliceEndByte(slice, newline_offsets, mismatch, start_byte) ==
    IF mismatch.original = <<>> THEN start_byte
    ELSE OnePastNewline(slice, newline_offsets, mismatch.original_end_line - 1)

\* the Slice arm of the match on file_contents
SliceRange(slice, mismatch) ==
    LET newline_offsets == NewlineOffsets(slice)
        start_byte == SliceStartByte(slice, newline_offsets, mismatch)
        start_point == Point(mismatch.original_begin_line - 1, 0)
    IN [start_byte |-> start_byte,
        end_byte |-> SliceEndByte(slice, newline_offsets, mismatch, start_byte),
        start_point |-> start_point,
        end_point |-> IF mismatch.original = <<>> THEN start_point
                      ELSE Point(mismatch.original_end_line, 0)]

LocalizedRange(contents, mismatch) ==
    IF contents.kind = "Rope" THEN RopeRange(contents.text, mismatch)
    ELSE SliceRange(contents.text, mismatch)

LocalizePanics(contents, mismatch) ==
    contents.kind = "Rope" /\ RopeRangePanics(contents.text, mismatch)

EndsWithNewline(s) == Len(s) > 0 /\ s[Len(s)] = NL

\* the assertion at the head of the loop body
WholeLines(mismatch) ==
    /\ mismatch.original = <<>> \/ EndsWithNewline(mismatch.original)
    /\ mismatch.expected = <<>> \/ EndsWithNewline(mismatch.expected)

\* fixer.replace_text_range(range, expected), applied to the document
ApplyFix(text, violation) ==
    Slice(text, 0, violation.range.start_byte)
    \o violation.fix
    \o Slice(text, violation.range.end_byte, Len(text))

(* ------------------------ the formatter oracle ------------------------ *)

\* 1-based line count of a reported text: whole lines only
CountLines(s) == NumNewlines(s)

NewMismatch(begin_line, end_line, original, expected) ==
    [original_begin_line |-> begin_line,
     original_end_line |-> end_line,
     expected_begin_line |-> begin_line,
     expected_end_line |-> IF expected = <<>> THEN begin_line
                           ELSE begin_line + CountLines(expected) - 1,
     original |-> original,
     expected |-> expected]

\* what the formatter wants in place of a region: nothing, or one line
ExpectedTexts == {<<>>, <<"b", NL>>}

\* the lines the formatter counts: what follows the last terminator is a line
\* only if it is not empty
CountedLines(text) ==
    IF text = <<>> \/ text[Len(text)] = NL THEN NumNewlines(text)
    ELSE NumNewlines(text) + 1

\* the mismatches the formatter can report on text: lines a..b replaced, or
\* lines inserted before line a (or after the last terminated line).  The
\* formatter of test_basic accepts the valid case and turns "( )" into "()"
Mismatches(text) ==
    IF text = TestValidCode THEN {}
    ELSE IF text = TestInvalidCode THEN {NewMismatch(1, 1, text, TestOutput)}
    ELSE LET lines == 1..CountedLines(text)
         IN {NewMismatch(a, b, LinesWithTerminator(text, a, b), expected) :
                 <<a, b, expected>> \in
                     {t \in lines \X lines \X ExpectedTexts : t[1] <= t[2]}}
            \cup
            {NewMismatch(a, a, <<>>, expected) :
                 <<a, expected>> \in (1..LenLines(text)) \X (ExpectedTexts \ {<<>>})}

\* a report that is not made of whole lines
PartialLineMismatch == NewMismatch(1, 1, <<"a">>, <<"b", NL>>)

\* the mismatch lists of one result record: in document order, not overlapping
MismatchLists(text) ==
    {<<m>> : m \in Mismatches(text) \cup {PartialLineMismatch}}
    \cup
    {<<p[1], p[2]>> : p \in
        {q \in Mismatches(text) \X Mismatches(text) :
            q[1].original_end_line < q[2].original_begin_line}}

\* the decoded JSON: no record, one record for standard input, a record
\* under another name, two records
FilesWithMismatches(text) ==
    {<<>>}
    \cup {<<[name |-> "<stdin>", mismatches |-> ms]>> : ms \in MismatchLists(text)}
    \cup {<<[name |-> "stdin", mismatches |-> <<>>]>>,
          <<[name |-> "<stdin>", mismatches |-> <<>>],
            [name |-> "<stdin>", mismatches |-> <<>>]>>}

NoOutput ==
    [result |-> "none", success |-> FALSE, stderr_utf8 |-> FALSE,
     stdout |-> "none", decoded |-> <<>>]

\* everything command.wait_with_output() can return
Outputs(text) ==
    {[NoOutput EXCEPT !.result = "Err"]}
    \cup {[NoOutput EXCEPT !.result = "Ok", !.stderr_utf8 = u] : u \in BOOLEAN}
    \cup {[NoOutput EXCEPT !.result = "Ok", !.success = TRUE, !.stdout = o] :
             o \in {"not utf8", "not JSON"}}
    \cup {[NoOutput EXCEPT !.result = "Ok", !.success = TRUE, !.stdout = "JSON",
                           !.decoded = files] : files \in FilesWithMismatches(text)}

NoFile == [name |-> "", mismatches |-> <<>>]

(* ------------------------------ Init ---------------------------------- *)

Init ==
    /\ run_kind \in RunKinds
    /\ file_contents \in [kind : {"Rope", "Slice"}, text : Texts]
    /\ pc = "start"
    /\ line_ranges = None
    /\ args = BuildArgs(None)
    /\ command = "none"
    /\ stdin = "none"
    /\ stdin_written = <<>>
    /\ output = NoOutput
    /\ file_with_mismatches = NoFile
    /\ mismatches = <<>>
    /\ violations = <<>>
    /\ eprinted = <<>>

(* ----------------------------- actions -------------------------------- *)

\* lines 47-52: the early return
ReturnForSlice ==
    /\ pc = "start"
    /\ IsSkip(run_kind)
    /\ pc' = "returned"
    /\ UNCHANGED <<run_kind, file_contents, line_ranges, args, command, stdin,
                   stdin_written, output, file_with_mismatches, mismatches,
                   violations, eprinted>>

\* lines 54-113: line_ranges and the argument vector
PrepareArgs ==
    /\ pc = "start"
    /\ ~IsSkip(run_kind)
    /\ line_ranges' = LineRanges(run_kind)
    /\ args' = BuildArgs(line_ranges')
    /\ pc' = "spawn"
    /\ UNCHANGED <<run_kind, file_contents, command, stdin, stdin_written,
                   output, file_with_mismatches, mismatches, violations, eprinted>>

\* lines 117-125: Command::new("rustfmt")...spawn().unwrap(), stdin.take()
Spawn ==
    /\ pc = "spawn"
    /\ \E spawned \in BOOLEAN :
         IF spawned
         THEN command' = "running" /\ stdin' = "open" /\ pc' = "write"
         ELSE command' = "spawn failed" /\ stdin' = stdin /\ pc' = "panicked"
    /\ UNCHANGED <<run_kind, file_contents, line_ranges, args, stdin_written,
                   output, file_with_mismatches, mismatches, violations, eprinted>>

\* line 128: stdin.write_all(slice).expect(..)
SliceWriteAll ==
    /\ pc = "write"
    /\ file_contents.kind = "Slice"
    /\ \E written \in BOOLEAN :
         IF written
         THEN stdin_written' = file_contents.text /\ pc' = "drop"
         ELSE stdin_written' = stdin_written /\ pc' = "panicked"
    /\ UNCHANGED <<run_kind, file_contents, line_ranges, args, command, stdin,
                   output, file_with_mismatches, mismatches, violations, eprinted>>

SliceKeepStdin ==
    /\ pc = "drop"
    /\ pc' = "wait"
    /\ UNCHANGED <<run_kind, file_contents, line_ranges, args, command, stdin,
                   stdin_written, output, file_with_mismatches, mismatches,
                   violations, eprinted>>

\* line 129: drop(stdin)
SliceDropStdin ==
    /\ pc = "drop"
    /\ stdin' = "closed"
    /\ pc' = "wait"
    /\ UNCHANGED <<run_kind, file_contents, line_ranges, args, command,
                   stdin_written, output, file_with_mismatches, mismatches,
                   violations, eprinted>>

\* line 132: rope.write_to(stdin).expect(..); write_to takes the writer by
\* value, so it is dropped when write_to returns
RopeWriteTo ==
    /\ pc = "write"
    /\ file_contents.kind = "Rope"
    /\ stdin' = "closed"
    /\ \E written \in BOOLEAN :
         IF written
         THEN stdin_written' = file_contents.text /\ pc' = "wait"
         ELSE stdin_written' = stdin_written /\ pc' = "panicked"
    /\ UNCHANGED <<run_kind, file_contents, line_ranges, args, command,
                   output, file_with_mismatches, mismatches, violations, eprinted>>

\* lines 138-146: command.wait_with_output()
WaitWithOutput ==
    /\ pc = "wait"
    /\ command' = "waited"
    /\ \E o \in Outputs(file_contents.text) :
         /\ output' = o
         /\ IF o.result = "Err"
            THEN /\ eprinted' = Append(eprinted, "Running rustfmt failed")
                 /\ pc' = "returned"
            ELSE /\ eprinted' = eprinted
                 /\ pc' = "status"
    /\ UNCHANGED <<run_kind, file_contents, line_ranges, args, stdin,
                   stdin_written, file_with_mismatches, mismatches, violations>>

\* lines 150-156: a non-zero exit status
CheckStatus ==
    /\ pc = "status"
    /\ IF output.success
       THEN eprinted' = eprinted /\ pc' = "deserialize"
       ELSE IF output.stderr_utf8
       THEN /\ eprinted' = Append(eprinted, "rustfmt returned an error")
            /\ pc' = "returned"
       ELSE eprinted' = eprinted /\ pc' = "panicked"
    /\ UNCHANGED <<run_kind, file_contents, line_ranges, args, command, stdin,
                   stdin_written, output, file_with_mismatches, mismatches,
                   violations>>

\* lines 160-178: decode the JSON, take the one record, check its name
Deserialize ==
    /\ pc = "deserialize"
    /\ IF output.stdout # "JSON"
       THEN pc' = "panicked" /\ UNCHANGED <<file_with_mismatches, mismatches>>
       ELSE IF output.decoded = <<>>
       THEN pc' = "returned" /\ UNCHANGED <<file_with_mismatches, mismatches>>
       ELSE IF Len(output.decoded) # 1
       THEN pc' = "panicked" /\ UNCHANGED <<file_with_mismatches, mismatches>>
       ELSE IF output.decoded[1].name # ExpectedFileName
       THEN pc' = "panicked" /\ UNCHANGED <<file_with_mismatches, mismatches>>
       ELSE /\ file_with_mismatches' = output.decoded[1]
            /\ mismatches' = output.decoded[1].mismatches
            /\ pc' = "for"
    /\ UNCHANGED <<run_kind, file_contents, line_ranges, args, command, stdin,
                   stdin_written, output, violations, eprinted>>

\* lines 249-259: the violation given to context.report
NewViolation(range, mismatch) ==
    [range |-> range, message_id |-> "unexpected_formatting",
     fix |-> mismatch.expected, mismatch |-> mismatch]

\* lines 180-260: one iteration of the loop over the mismatches
ReportMismatch ==
    /\ pc = "for"
    /\ mismatches # <<>>
    /\ LET mismatch == Head(mismatches)
       IN IF ~WholeLines(mismatch) \/ LocalizePanics(file_contents, mismatch)
          THEN pc' = "panicked" /\ UNCHANGED <<mismatches, violations>>
          ELSE /\ violations' =
                      Append(violations,
                             NewViolation(LocalizedRange(file_contents, mismatch),
                                          mismatch))
               /\ mismatches' = Tail(mismatches)
               /\ pc' = "for"
    /\ UNCHANGED <<run_kind, file_contents, line_ranges, args, command, stdin,
                   stdin_written, output, file_with_mismatches, eprinted>>

\* line 261: the loop is over
Return ==
    /\ pc = "for"
    /\ mismatches = <<>>
    /\ pc' = "returned"
    /\ UNCHANGED <<run_kind, file_contents, line_ranges, args, command, stdin,
                   stdin_written, output, file_with_mismatches, mismatches,
                   violations, eprinted>>

Next ==
    \/ ReturnForSlice
    \/ PrepareArgs
    \/ Spawn
    \/ SliceWriteAll
    \/ SliceDropStdin
    \/ RopeWriteTo
    \/ WaitWithOutput
    \/ CheckStatus
    \/ Deserialize
    \/ ReportMismatch
    \/ Return

Spec == Init /\ [][Next]_vars

(* ------------------------------ claims -------------------------------- *)

text == file_contents.text

RangeText(violation) ==
    Slice(text, violation.range.start_byte, violation.range.end_byte)

Reported == {violations[i] : i \in 1..Len(violations)}

Replacements == {v \in Reported : v.mismatch.original # <<>>}

Insertions == {v \in Reported : v.mismatch.original = <<>>}

\* C1, as stated: the text of the byte range of every mismatch with non-empty
\* original spanning lines a..b is the concatenation of lines a..b, each with
\* its line terminator, also when the document's last line has none
RangeTextHasTrailingTerminator ==
    \A v \in Replacements :
        RangeText(v) = LinesWithTerminator(text, v.mismatch.original_begin_line,
                                           v.mismatch.original_end_line)

\* C1, amended: the text of the byte range is lines a..b as they stand in the
\* document; it carries the trailing line terminator whenever line b has one,
\* and lacks only that terminator when line b is the unterminated last line
RangeTextIsLinesOfDocument ==
    \A v \in Replacements :
        LET a == v.mismatch.original_begin_line
            b == v.mismatch.original_end_line
        IN /\ RangeText(v) = LinesAsInDocument(text, a, b)
           /\ b <= NumNewlines(text) => RangeText(v) = LinesWithTerminator(text, a, b)
           /\ b > NumNewlines(text) =>
                  RangeText(v) \o <<NL>> = LinesWithTerminator(text, a, b)

\* C1 witness: a two-line replacement on a byte buffer that ends in an
\* unterminated line was localized
RangeTextWitness ==
    \E v \in Replacements :
        /\ file_contents.kind = "Slice"
        /\ v.mismatch.original_begin_line < v.mismatch.original_end_line
        /\ v.mismatch.original_end_line > NumNewlines(text)
        /\ text # <<>> /\ text[Len(text)] # NL

FullCheckDecoded ==
    /\ pc = "returned"
    /\ ~IsSome(line_ranges)
    /\ output.result = "Ok" /\ output.success /\ output.stdout = "JSON"

\* the document the formatter expects when mismatch m is its only discrepancy
ExpectedDocument(m) ==
    LinesAsInDocument(text, 1, m.original_begin_line - 1)
    \o m.expected
    \o LinesAsInDocument(text, m.original_end_line + 1, LenLines(text))

OneSingleLineDiscrepancy ==
    /\ Len(output.decoded) = 1
    /\ output.decoded[1].name = "<stdin>"
    /\ Len(output.decoded[1].mismatches) = 1
    /\ output.decoded[1].mismatches[1].original # <<>>
    /\ WholeLines(output.decoded[1].mismatches[1])
    /\ output.decoded[1].mismatches[1].original_begin_line
           = output.decoded[1].mismatches[1].original_end_line

\* C2: a full check of a document with one discrepancy confined to one line
\* ends with exactly one violation whose fix, applied, gives the expected
\* document ("fn whee( ) {}\n" becomes "fn whee() {}\n"); with no
\* discrepancy it ends with no violation
SingleLineFixGivesExpectedDocument ==
    FullCheckDecoded =>
        /\ output.decoded = <<>> => violations = <<>>
        /\ OneSingleLineDiscrepancy =>
               /\ Len(violations) = 1
               /\ ApplyFix(text, violations[1])
                      = ExpectedDocument(output.decoded[1].mismatches[1])
               /\ text = TestInvalidCode => ApplyFix(text, violations[1]) = TestOutput

\* C2 witness: the invalid case of test_basic ended with its one violation,
\* on a rope
SingleLineFixWitness ==
    /\ FullCheckDecoded
    /\ OneSingleLineDiscrepancy
    /\ file_contents.kind = "Rope"
    /\ text = TestInvalidCode
    /\ Len(violations) = 1

\* C3: the range of every mismatch with empty original is zero-width and
\* sits at column 0 of row original_begin_line - 1, at the byte where that
\* line begins
PureInsertionRangeIsZeroWidth ==
    \A v \in Insertions :
        /\ v.range.end_byte = v.range.start_byte
        /\ v.range.end_point = v.range.start_point
        /\ v.range.start_point = Point(v.mismatch.original_begin_line - 1, 0)
        /\ IsStartOfRow(text, v.range.start_byte, v.mismatch.original_begin_line - 1)

\* C3 witness: an insertion before a line other than the first was localized
\* on a byte buffer
PureInsertionWitness ==
    \E v \in Insertions :
        /\ file_contents.kind = "Slice"
        /\ v.mismatch.original_begin_line >= 2
        /\ v.range.start_byte > 0

\* C4: with run kind NonfixingForSlice the invocation returns at once: no
\* subprocess is ever spawned and no violation is reported
SkipNeverSpawns ==
    run_kind.kind = "NonfixingForSlice" =>
        /\ pc \in {"start", "returned"}
        /\ command = "none"
        /\ stdin = "none"
        /\ violations = <<>>

\* C4 witness: a NonfixingForSlice invocation has returned
SkipWitness == run_kind.kind = "NonfixingForSlice" /\ pc = "returned"

\* C5, as stated: when the subprocess cannot be launched the invocation
\* reports the failure and returns normally with no violation
LaunchFailureFailsOpen ==
    command = "spawn failed" =>
        /\ pc = "returned"
        /\ eprinted # <<>>
        /\ violations = <<>>

\* C6: whenever the invocation is at or past the wait for the subprocess's
\* output, the whole document was written to its input and the input closed
InputClosedBeforeWait ==
    (pc = "wait" \/ command = "waited") =>
        /\ stdin = "closed"
        /\ stdin_written = text

\* C6 witness: a byte-buffer invocation is about to wait, its document written
InputClosedWitness ==
    pc = "wait" /\ file_contents.kind = "Slice" /\ text # <<>>

Scoped ==
    \/ run_kind.kind = "FixingForSliceFixingLoop"
    \/ /\ run_kind.kind = "FixingForSliceInitial"
       /\ IsSome(run_kind.edits_since_last_fixing_run)
       /\ IsSome(run_kind.last_fixing_run_violations)

HasFileLines == \E i \in 1..Len(args.flags) : args.flags[i] = "--file-lines"

\* C7: the formatter is given --file-lines exactly when the run kind is
\* FixingForSliceFixingLoop, or FixingForSliceInitial with both the edits and
\* the violations of the last fixing run; otherwise its arguments carry no
\* line range
FileLinesIffScoped ==
    command # "none" =>
        /\ HasFileLines <=> Scoped
        /\ IsSome(line_ranges) <=> Scoped
        /\ ~Scoped => args.flags = BaseArgs /\ args.file_lines = <<>>

\* C7 witness: an initial fixing pass that has edits but no prior violations
\* runs the formatter unscoped
FileLinesWitness ==
    /\ command = "running"
    /\ run_kind.kind = "FixingForSliceInitial"
    /\ IsSome(run_kind.edits_since_last_fixing_run)
    /\ ~IsSome(run_kind.last_fixing_run_violations)
    /\ ~HasFileLines

Accepted == file_with_mismatches # NoFile

\* C8, as stated: the name of an accepted result record is the file name the
\* invocation uses in its scoping instruction
AcceptedNameIsScopeFileName ==
    Accepted =>
        /\ file_with_mismatches.name = ScopeFileName
        /\ \A i \in 1..Len(args.file_lines) :
               args.file_lines[i].file = file_with_mismatches.name

\* C8, amended: the name of an accepted result record is "<stdin>"; the
\* scoping instruction names the document "stdin", another constant; a
\* single record under any other name aborts the invocation with no violation
AcceptedNameIsStdinDisplayName ==
    /\ Accepted => file_with_mismatches.name = "<stdin>"
    /\ \A i \in 1..Len(args.file_lines) : args.file_lines[i].file = "stdin"
    /\ (/\ pc \notin {"start", "spawn", "write", "drop", "wait", "status", "deserialize"}
        /\ output.stdout = "JSON"
        /\ Len(output.decoded) = 1
        /\ output.decoded[1].name # "<stdin>")
       => pc = "panicked" /\ ~Accepted /\ violations = <<>>

\* C8 witness: a scoped check accepted a record and is about to localize
AcceptedNameWitness ==
    /\ pc = "for"
    /\ Accepted
    /\ mismatches # <<>>
    /\ args.file_lines # <<>>

\* C9, as stated: in every scoped check the line range of each prior
\* violation is the line span of its range translated through the edits
PriorViolationRangesAreTranslated ==
    IsSome(line_ranges) =>
        /\ run_kind.kind = "FixingForSliceInitial" =>
               LET edits == Unwrap(run_kind.edits_since_last_fixing_run)
                   prior == Unwrap(run_kind.last_fixing_run_violations)
               IN \A i \in 1..Len(prior) :
                      Unwrap(line_ranges)[Len(edits) + i]
                          = GetNewLineRange(edits, prior[i])
        /\ run_kind.kind = "FixingForSliceFixingLoop" =>
               LET edits == run_kind.all_fixes_from_last_pass
                   prior == run_kind.all_violations_from_last_pass
               IN \A i \in 1..Len(prior) :
                      Unwrap(line_ranges)[i] = GetNewLineRange(edits, prior[i])

AcceptedMismatches ==
    {file_with_mismatches.mismatches[i] :
        i \in 1..Len(file_with_mismatches.mismatches)}

\* C10: for every reported mismatch whose lines lie within the document, the
\* rope strategy and the byte-buffer strategy compute the same range
LocalizationStrategiesAgree ==
    \A m \in AcceptedMismatches :
        (/\ m.original_begin_line \in 1..LenLines(text)
         /\ m.original_end_line \in 1..LenLines(text))
        => RopeRange(text, m) = SliceRange(text, m)

\* C10 witness: a replacement that reaches the unterminated last line of a
\* document of several lines was accepted
LocalizationWitness ==
    \E m \in AcceptedMismatches :
        /\ m.original # <<>>
        /\ m.original_begin_line >= 2
        /\ m.original_end_line = LenLines(text)
        /\ text[Len(text)] # NL

====
